---------------------------- MODULE Spec2Model ----------------------------
(***************************************************************************)
(* Pet Finder (src/pet_finder.js): the AnimalShelter store with its add,   *)
(* search and adopt methods, and the callback-driven interactive session   *)
(* of UserInterface.interact.                                              *)
(*                                                                         *)
(* A JavaScript string is a sequence of one-character strings, so that     *)
(* toLowerCase and === are computed character by character.  The value     *)
(* undefined is a sequence that is no string.  A Pet object is a record,   *)
(* and a reference to a Pet is its 1-based position in this.pets.          *)
(***************************************************************************)
EXTENDS Naturals, Sequences, FiniteSets

VARIABLES pets,         \* AnimalShelter.pets: the array of Pet records
          count,        \* AnimalShelter.count
          pc,           \* which callback the outstanding read belongs to
          pending,      \* number of prompt.get reads outstanding
          carriedType,  \* the parameter `type` of askBreed, held by its closure
          out,          \* the lines console.log printed during the last step
          call,         \* the shelter operation of the last step: arguments, result
          inputEnded,   \* the input stream has ended: reads deliver no result
          nAdded,       \* number of add calls so far
          lastRead      \* the read the last step answered: its prompt and result

vars == <<pets, count, pc, pending, carriedType, out, call, inputEnded, nAdded,
          lastRead>>

-----------------------------------------------------------------------------
(* Bounds *)

MaxSeed == 2      \* longest seed list given to the constructor (besides the default seed)
MaxAdd == 1       \* number of add calls in a run

-----------------------------------------------------------------------------
(* JavaScript values *)

Empty == <<>>
Undefined == <<"undefined">>

\* JavaScript truthiness of a string-or-undefined value
Truthy(v) == v # Undefined /\ v # Empty

UpperCase == <<"A","B","C","D","E","F","G","H","I","J","K","L","M",
               "N","O","P","Q","R","S","T","U","V","W","X","Y","Z">>
LowerCase == <<"a","b","c","d","e","f","g","h","i","j","k","l","m",
               "n","o","p","q","r","s","t","u","v","w","x","y","z">>

toLowerCaseChar(c) ==
    IF \E k \in 1..Len(UpperCase) : UpperCase[k] = c
    THEN LowerCase[CHOOSE k \in 1..Len(UpperCase) : UpperCase[k] = c]
    ELSE c

\* String.prototype.toLowerCase
toLowerCase(s) == [k \in 1..Len(s) |-> toLowerCaseChar(s[k])]

-----------------------------------------------------------------------------
(* The strings of the program and of the inputs *)

sLuna == <<"L","u","n","a">>
sLunaLower == <<"l","u","n","a">>
sTeddy == <<"T","e","d","d","y">>
sCharlie == <<"C","h","a","r","l","i","e">>
sAster == <<"A","s","t","e","r">>
sGoldie == <<"G","o","l","d","i","e">>
sLisa == <<"L","i","s","a">>
sTimmy == <<"T","i","m","m","y">>
sOliver == <<"O","l","i","v","e","r">>
sRex == <<"R","e","x">>
sDog == <<"d","o","g">>
sDogUpper == <<"D","o","g">>
sCat == <<"c","a","t">>
sGolden == <<"G","o","l","d","e","n"," ","R","e","t","r","i","e","v","e","r">>
sLabrador == <<"L","a","b","r","a","d","o","r">>
sHusky == <<"H","u","s","k","y">>
sShorthair == <<"S","h","o","r","t","h","a","i","r">>
sLonghair == <<"L","o","n","g","h","a","i","r">>
sSiamese == <<"S","i","a","m","e","s","e">>

\* new Pet(name, type, breed, is_available)
Pet(name, type, breed, is_available) ==
    [name |-> name, type |-> type, breed |-> breed, is_available |-> is_available]

\* the eight pets ProjectDriver.run pushes, in that order
DefaultSeed ==
    << Pet(sLuna, sDog, sGolden, TRUE),
       Pet(sTeddy, sDog, sLabrador, TRUE),
       Pet(sCharlie, sDog, sGolden, TRUE),
       Pet(sAster, sDog, sHusky, TRUE),
       Pet(sGoldie, sCat, sShorthair, TRUE),
       Pet(sLisa, sCat, sLonghair, TRUE),
       Pet(sTimmy, sCat, sSiamese, TRUE),
       Pet(sOliver, sCat, sShorthair, TRUE) >>

\* pets a caller of the constructor or of add may pass: names may repeat,
\* also in another letter case (the model of the program does not prevent it)
SeedPets == { Pet(sLuna, sDog, sGolden, TRUE),
              Pet(sLunaLower, sCat, sShorthair, TRUE) }

AddPets == { Pet(sLunaLower, sDog, sGolden, TRUE),
             Pet(sRex, sCat, sShorthair, TRUE) }

SeedLists ==
    UNION { [1..n -> SeedPets] : n \in 0..MaxSeed } \cup { DefaultSeed }

\* arguments of the shelter's methods
TypeArgs == { Undefined, Empty, sDog, sDogUpper }
BreedArgs == { Undefined, Empty, sGolden }
NameArgs == { Undefined, Empty, sLuna, sLunaLower, sTeddy, sRex }

\* lines the user may type at the four prompts
NoResult == Undefined
MenuLines == { <<"1">>, <<"2">>, <<"3">>, <<"4">>, Empty, <<"5">> }
TypeLines == { Empty, sDog, sCat, sDogUpper, <<"4">> }
BreedLines == { Empty, sGolden, sShorthair, <<"4">> }
NameLines == { Empty, sLuna, sLunaLower, sTeddy, sRex, <<"4">> }

-----------------------------------------------------------------------------
(* console.log: a printed line is its message; the line                   *)
(* `${pet.name}, ${pet.type}, ${pet.breed}` names the pet it is printed of *)

Line(m) == [msg |-> m, pet |-> 0]
PetLine(i) == [msg |-> "pet", pet |-> i]

-----------------------------------------------------------------------------
(* AnimalShelter *)

\* a search whose type-only branch forgets `&& pet.is_available`
searchMatchAdoptedToo(pet, type, breed) ==
    IF Truthy(type) /\ Truthy(breed)
    THEN pet.type = type /\ pet.breed = breed /\ pet.is_available
    ELSE IF Truthy(type) /\ ~Truthy(breed)
    THEN pet.type = type
    ELSE IF ~Truthy(type) /\ Truthy(breed)
    THEN pet.breed = breed /\ pet.is_available
    ELSE pet.is_available

\* the condition of the branch of search that (type, breed) selects
searchMatch(pet, type, breed) ==
    IF Truthy(type) /\ Truthy(breed)
    THEN pet.type = type /\ pet.breed = breed /\ pet.is_available
    ELSE IF Truthy(type) /\ ~Truthy(breed)
    THEN pet.type = type /\ pet.is_available
    ELSE IF ~Truthy(type) /\ Truthy(breed)
    THEN pet.breed = breed /\ pet.is_available
    ELSE pet.is_available

\* for (let i = 0; i < this.count; i++): i is the 1-based position here.
\* Reading a field of this.pets[i] past the end of the array throws.
RECURSIVE searchLoop(_, _, _, _)
searchLoop(type, breed, i, results) ==
    IF i > count THEN [threw |-> FALSE, results |-> results]
    ELSE IF i > Len(pets) THEN [threw |-> TRUE, results |-> results]
    ELSE searchLoop(type, breed, i + 1,
                    IF searchMatch(pets[i], type, breed)
                    THEN Append(results, i) ELSE results)

\* AnimalShelter.search: the references (positions) of the pets returned
search(type, breed) == searchLoop(type, breed, 1, <<>>)

\* an adopt condition that forgets `&& pet.is_available`
adoptMatchAdoptedToo(pet, name) ==
    Truthy(name) /\ toLowerCase(pet.name) = toLowerCase(name)

\* the condition of adopt's if statement
adoptMatch(pet, name) ==
    Truthy(name) /\ toLowerCase(pet.name) = toLowerCase(name) /\ pet.is_available

\* an adopt loop that stops at the first match (a `break` after line 243)
RECURSIVE adoptLoopFirstOnly(_, _, _, _)
adoptLoopFirstOnly(name, i, ps, result) ==
    IF i > count THEN [threw |-> FALSE, pets |-> ps, result |-> result]
    ELSE IF i > Len(ps) THEN [threw |-> TRUE, pets |-> ps, result |-> result]
    ELSE IF adoptMatch(ps[i], name)
    THEN [threw |-> FALSE, pets |-> [ps EXCEPT ![i].is_available = FALSE],
          result |-> TRUE]
    ELSE adoptLoopFirstOnly(name, i + 1, ps, result)

\* an adopt loop that never assigns `result = true` (line 243 left out)
RECURSIVE adoptLoopNoResult(_, _, _, _)
adoptLoopNoResult(name, i, ps, result) ==
    IF i > count THEN [threw |-> FALSE, pets |-> ps, result |-> result]
    ELSE IF i > Len(ps) THEN [threw |-> TRUE, pets |-> ps, result |-> result]
    ELSE IF adoptMatch(ps[i], name)
    THEN adoptLoopNoResult(name, i + 1, [ps EXCEPT ![i].is_available = FALSE], result)
    ELSE adoptLoopNoResult(name, i + 1, ps, result)

\* an adopt loop that also stores the lower-cased name in the pet it adopts
RECURSIVE adoptLoopRenames(_, _, _, _)
adoptLoopRenames(name, i, ps, result) ==
    IF i > count THEN [threw |-> FALSE, pets |-> ps, result |-> result]
    ELSE IF i > Len(ps) THEN [threw |-> TRUE, pets |-> ps, result |-> result]
    ELSE IF adoptMatch(ps[i], name)
    THEN adoptLoopRenames(name, i + 1,
                          [ps EXCEPT ![i].is_available = FALSE,
                                     ![i].name = toLowerCase(ps[i].name)], TRUE)
    ELSE adoptLoopRenames(name, i + 1, ps, result)

\* for (let i = 0; i < this.count; i++) of adopt; ps is this.pets so far
RECURSIVE adoptLoop(_, _, _, _)
adoptLoop(name, i, ps, result) ==
    IF i > count THEN [threw |-> FALSE, pets |-> ps, result |-> result]
    ELSE IF i > Len(ps) THEN [threw |-> TRUE, pets |-> ps, result |-> result]
    ELSE IF adoptMatch(ps[i], name)
    THEN adoptLoop(name, i + 1, [ps EXCEPT ![i].is_available = FALSE], TRUE)
    ELSE adoptLoop(name, i + 1, ps, result)

\* AnimalShelter.adopt: the array after the call and the value returned
adopt(name) == adoptLoop(name, 1, pets, FALSE)

\* an add that counts the pet without pushing it
addCountOnly(pet) == [pets |-> pets, count |-> count + 1]

\* AnimalShelter.add: this.pets.push(pet); this.count is not assigned
add(pet) == [pets |-> Append(pets, pet), count |-> count]

-----------------------------------------------------------------------------
(* The record of the last shelter operation *)

\* `again` marks an adopt that directly follows a successful adopt of the same name
NoCall == [op |-> "none", name |-> Empty, type |-> Empty, breed |-> Empty,
           result |-> FALSE, results |-> <<>>, threw |-> FALSE, again |-> FALSE]

AddCall == [NoCall EXCEPT !.op = "add"]
ListCall == [NoCall EXCEPT !.op = "list"]
SearchCall(type, breed, r) ==
    [NoCall EXCEPT !.op = "search", !.type = type, !.breed = breed,
                   !.results = r.results, !.threw = r.threw]
AdoptCall(name, r) ==
    [NoCall EXCEPT !.op = "adopt", !.name = name, !.result = r.result,
                   !.threw = r.threw,
                   !.again = (call.op = "adopt" /\ call.result /\ call.name = name)]

-----------------------------------------------------------------------------
(* UserInterface.interact *)

Live == { "MainMenu", "AwaitType", "AwaitBreed", "AwaitAdoptName" }

\* the read a callback answers: the prompt it was issued at, what it delivered
Read(result) == [at |-> pc, result |-> result]
NoRead == [at |-> "none", result |-> NoResult]

\* what a read can deliver: a line, or no result object; after the end of
\* the input stream only the latter
Delivered(lines) == IF inputEnded THEN { NoResult } ELSE lines \cup { NoResult }

RECURSIVE displayLoop(_, _)
displayLoop(i, lines) ==
    IF i > count THEN [threw |-> FALSE, lines |-> lines]
    ELSE IF i > Len(pets) THEN [threw |-> TRUE, lines |-> lines]
    ELSE displayLoop(i + 1, IF pets[i].is_available
                            THEN Append(lines, PetLine(i)) ELSE lines)

\* displayShelterAnimals: the lines it prints
displayShelterAnimals ==
    IF count = 0
    THEN [threw |-> FALSE,
          lines |-> << Line("Pets available for adoption:"),
                       Line("No pets are currently available.") >>]
    ELSE displayLoop(1, << Line("Pets available for adoption:") >>)

\* the lines askBreed's callback prints for the result of search
RECURSIVE resultLines(_, _, _)
resultLines(results, k, lines) ==
    IF k > Len(results) THEN lines
    ELSE resultLines(results, k + 1,
                     IF pets[results[k]].is_available
                     THEN Append(lines, PetLine(results[k])) ELSE lines)

searchLines(type, breed, results) ==
    IF Len(results) > 0 THEN resultLines(results, 1, <<>>)
    ELSE IF Truthy(type) /\ Truthy(breed)
    THEN << Line("No pets are available for selected type and breed.") >>
    ELSE IF Truthy(type) /\ ~Truthy(breed)
    THEN << Line("No pets are available for selected type.") >>
    ELSE IF ~Truthy(type) /\ Truthy(breed)
    THEN << Line("No pets are available for selected breed.") >>
    ELSE << Line("No pets are available.") >>

\* an ask that issues its read without printing the instructions
askWithoutInstructions(printed) ==
    /\ out' = printed
    /\ pc' = "MainMenu"
    /\ pending' = (pending - 1) + 1

\* an ask that issues its read twice (a second prompt.get beside the first)
askTwice(printed) ==
    /\ out' = Append(printed, Line("instructions"))
    /\ pc' = "MainMenu"
    /\ pending' = (pending - 1) + 2

\* ask(): print the instructions and issue the read of the menu selection;
\* `printed` is what the running callback printed before it
ask(printed) ==
    /\ out' = Append(printed, Line("instructions"))
    /\ pc' = "MainMenu"
    /\ pending' = (pending - 1) + 1

\* an exception leaves the callback: nothing catches it, no read is issued
uncaught(printed) ==
    /\ out' = printed
    /\ pc' = "Crashed"
    /\ pending' = pending - 1

Init ==
    /\ pets \in SeedLists
    /\ count = Len(pets)
    /\ pc = "MainMenu"
    /\ pending = 1
    /\ carriedType = Empty
    /\ out = << Line("*** Welcome to Pet Finder! ***"), Line("instructions") >>
    /\ call = NoCall
    /\ inputEnded = FALSE
    /\ nAdded = 0
    /\ lastRead = NoRead

\* a callback of ask whose branch for '4' prints the exit message and then
\* falls through to ask() like the branches around it
askCallbackExitReprompts(result) ==
    /\ pc = "MainMenu" /\ pending > 0
    /\ lastRead' = Read(result)
    /\ UNCHANGED <<pets, count, carriedType, inputEnded, nAdded>>
    /\ IF result = NoResult
       THEN call' = NoCall /\ ask(<<>>)
       ELSE IF result = <<"1">>
       THEN LET r == displayShelterAnimals IN
            /\ call' = [ListCall EXCEPT !.threw = r.threw]
            /\ IF r.threw THEN uncaught(r.lines) ELSE ask(r.lines)
       ELSE IF result = <<"2">>
       THEN /\ call' = NoCall
            /\ out' = << Line("Enter the type of pet (dog or cat):"),
                         Line("Enter the type:") >>
            /\ pc' = "AwaitType"
            /\ pending' = (pending - 1) + 1
       ELSE IF result = <<"3">>
       THEN /\ call' = NoCall
            /\ out' = << Line("Enter the name of the pet you want to adopt:") >>
            /\ pc' = "AwaitAdoptName"
            /\ pending' = (pending - 1) + 1
       ELSE IF result = <<"4">>
       THEN call' = NoCall /\ ask(<< Line("Exiting the program.") >>)
       ELSE call' = NoCall /\ ask(<<>>)

\* the callback of ask's prompt.get
askCallback(result) ==
    /\ pc = "MainMenu" /\ pending > 0
    /\ lastRead' = Read(result)
    /\ UNCHANGED <<pets, count, carriedType, inputEnded, nAdded>>
    /\ IF result = NoResult
       THEN call' = NoCall /\ ask(<<>>)
       ELSE IF result = <<"1">>
       THEN LET r == displayShelterAnimals IN
            /\ call' = [ListCall EXCEPT !.threw = r.threw]
            /\ IF r.threw THEN uncaught(r.lines) ELSE ask(r.lines)
       ELSE IF result = <<"2">>
       THEN /\ call' = NoCall
            /\ out' = << Line("Enter the type of pet (dog or cat):"),
                         Line("Enter the type:") >>
            /\ pc' = "AwaitType"
            /\ pending' = (pending - 1) + 1
       ELSE IF result = <<"3">>
       THEN /\ call' = NoCall
            /\ out' = << Line("Enter the name of the pet you want to adopt:") >>
            /\ pc' = "AwaitAdoptName"
            /\ pending' = (pending - 1) + 1
       ELSE IF result = <<"4">>
       THEN /\ call' = NoCall
            /\ out' = << Line("Exiting the program.") >>
            /\ pc' = "Exit"
            /\ pending' = pending - 1
       ELSE call' = NoCall /\ ask(<<>>)

\* a callback of askType that passes on whatever was typed
askTypeCallbackAnyType(result) ==
    /\ pc = "AwaitType" /\ pending > 0
    /\ lastRead' = Read(result)
    /\ UNCHANGED <<pets, count, inputEnded, nAdded>>
    /\ call' = NoCall
    /\ IF result = NoResult
       THEN uncaught(<<>>) /\ UNCHANGED carriedType
       ELSE /\ carriedType' = result
            /\ out' = <<>>
            /\ pc' = "AwaitBreed"
            /\ pending' = (pending - 1) + 1

\* the callback of askType's prompt.get: result.type is read unguarded
askTypeCallback(result) ==
    /\ pc = "AwaitType" /\ pending > 0
    /\ lastRead' = Read(result)
    /\ UNCHANGED <<pets, count, inputEnded, nAdded>>
    /\ call' = NoCall
    /\ IF result = NoResult
       THEN uncaught(<<>>) /\ UNCHANGED carriedType
       ELSE /\ carriedType' = IF result = sCat \/ result = sDog THEN result ELSE Empty
            /\ out' = <<>>
            /\ pc' = "AwaitBreed"
            /\ pending' = (pending - 1) + 1

\* a callback of askBreed that calls ask() only after it printed pets
askBreedCallbackNoReprompt(result) ==
    /\ pc = "AwaitBreed" /\ pending > 0
    /\ lastRead' = Read(result)
    /\ UNCHANGED <<pets, count, carriedType, inputEnded, nAdded>>
    /\ IF result = NoResult
       THEN call' = NoCall /\ uncaught(<<>>)
       ELSE LET r == search(carriedType, result) IN
            /\ call' = SearchCall(carriedType, result, r)
            /\ IF r.threw THEN uncaught(<<>>)
               ELSE IF Len(r.results) > 0
               THEN ask(searchLines(carriedType, result, r.results))
               ELSE /\ out' = searchLines(carriedType, result, r.results)
                    /\ pc' = "Stopped"
                    /\ pending' = pending - 1

\* the callback of askBreed's prompt.get: result.breed is read unguarded
askBreedCallback(result) ==
    /\ pc = "AwaitBreed" /\ pending > 0
    /\ lastRead' = Read(result)
    /\ UNCHANGED <<pets, count, carriedType, inputEnded, nAdded>>
    /\ IF result = NoResult
       THEN call' = NoCall /\ uncaught(<<>>)
       ELSE LET r == search(carriedType, result) IN
            /\ call' = SearchCall(carriedType, result, r)
            /\ IF r.threw THEN uncaught(<<>>)
               ELSE ask(searchLines(carriedType, result, r.results))

\* a callback of askName without the `if ( name )` test
askNameCallbackNoNameTest(result) ==
    /\ pc = "AwaitAdoptName" /\ pending > 0
    /\ lastRead' = Read(result)
    /\ UNCHANGED <<count, carriedType, inputEnded, nAdded>>
    /\ IF result = NoResult
       THEN /\ call' = NoCall
            /\ out' = <<>>
            /\ pc' = "Stopped"
            /\ pending' = pending - 1
            /\ UNCHANGED pets
       ELSE LET r == adopt(result) IN
            /\ call' = AdoptCall(result, r)
            /\ pets' = r.pets
            /\ IF r.threw THEN uncaught(<<>>)
               ELSE IF r.result
               THEN ask(<< Line("Congratulations! You adopted the pet.") >>)
               ELSE ask(<< Line("Something went wrong. Please check that the name is spelled correctly."),
                           Line("Pet trying to adopt is the name given.") >>)

\* the callback of askName's prompt.get
askNameCallback(result) ==
    /\ pc = "AwaitAdoptName" /\ pending > 0
    /\ lastRead' = Read(result)
    /\ UNCHANGED <<count, carriedType, inputEnded, nAdded>>
    /\ IF result = NoResult
       THEN \* if ( result ) fails: nothing is printed and no read is issued
            /\ call' = NoCall
            /\ out' = <<>>
            /\ pc' = "Stopped"
            /\ pending' = pending - 1
            /\ UNCHANGED pets
       ELSE IF Truthy(result)
       THEN LET r == adopt(result) IN
            /\ call' = AdoptCall(result, r)
            /\ pets' = r.pets
            /\ IF r.threw THEN uncaught(<<>>)
               ELSE IF r.result
               THEN ask(<< Line("Congratulations! You adopted the pet.") >>)
               ELSE ask(<< Line("Something went wrong. Please check that the name is spelled correctly."),
                           Line("Pet trying to adopt is the name given.") >>)
       ELSE /\ call' = NoCall
            /\ UNCHANGED pets
            /\ ask(<< Line("You must specify a valid name in order to adopt a pet. Please try again.") >>)

\* the input stream ends while a read is outstanding
endInput ==
    /\ pc \in Live /\ ~inputEnded
    /\ inputEnded' = TRUE
    /\ out' = <<>>
    /\ call' = NoCall
    /\ lastRead' = NoRead
    /\ UNCHANGED <<pets, count, pc, pending, carriedType, nAdded>>

-----------------------------------------------------------------------------
(* The shelter's methods called directly, while the session waits at the   *)
(* main menu                                                               *)

Add(pet) ==
    /\ pc = "MainMenu" /\ nAdded < MaxAdd
    /\ pets' = add(pet).pets
    /\ count' = add(pet).count
    /\ call' = AddCall
    /\ nAdded' = nAdded + 1
    /\ out' = <<>>
    /\ lastRead' = NoRead
    /\ UNCHANGED <<pc, pending, carriedType, inputEnded>>

Search(type, breed) ==
    /\ pc = "MainMenu"
    /\ call' = SearchCall(type, breed, search(type, breed))
    /\ out' = <<>>
    /\ lastRead' = NoRead
    /\ UNCHANGED <<pets, count, pc, pending, carriedType, inputEnded, nAdded>>

Adopt(name) ==
    /\ pc = "MainMenu"
    /\ pets' = adopt(name).pets
    /\ call' = AdoptCall(name, adopt(name))
    /\ out' = <<>>
    /\ lastRead' = NoRead
    /\ UNCHANGED <<count, pc, pending, carriedType, inputEnded, nAdded>>

Next ==
    \/ \E result \in Delivered(MenuLines) : askCallback(result)
    \/ \E result \in Delivered(TypeLines) : askTypeCallback(result)
    \/ \E result \in Delivered(BreedLines) : askBreedCallback(result)
    \/ \E result \in Delivered(NameLines) : askNameCallback(result)
    \/ endInput
    \/ \E pet \in AddPets : Add(pet)
    \/ \E type \in TypeArgs, breed \in BreedArgs : Search(type, breed)
    \/ \E name \in NameArgs : Adopt(name)

Spec == Init /\ [][Next]_vars

\* every outstanding read is eventually answered
SessionStep ==
    \/ \E result \in Delivered(MenuLines) : askCallback(result)
    \/ \E result \in Delivered(TypeLines) : askTypeCallback(result)
    \/ \E result \in Delivered(BreedLines) : askBreedCallback(result)
    \/ \E result \in Delivered(NameLines) : askNameCallback(result)

FairSpec == Spec /\ WF_vars(SessionStep)

-----------------------------------------------------------------------------
(* Vocabulary of the properties *)

Range(s) == { s[k] : k \in 1..Len(s) }

SameLetter(c, d) ==
    \/ c = d
    \/ \E k \in 1..Len(UpperCase) : {c, d} = {UpperCase[k], LowerCase[k]}

\* equality of two strings ignoring letter case
EqualIgnoringCase(a, b) ==
    /\ a # Undefined /\ b # Undefined
    /\ Len(a) = Len(b)
    /\ \A k \in 1..Len(a) : SameLetter(a[k], b[k])

\* pet p passes the filters: an empty or absent filter is a wildcard
PassesFilters(p, type, breed) ==
    /\ p.is_available
    /\ (Truthy(type) => p.type = type)
    /\ (Truthy(breed) => p.breed = breed)

RECURSIVE Positions(_, _, _, _)
Positions(ps, type, breed, i) ==
    IF i > Len(ps) THEN <<>>
    ELSE (IF PassesFilters(ps[i], type, breed) THEN <<i>> ELSE <<>>)
         \o Positions(ps, type, breed, i + 1)

\* the available pets of the collection ps matching name, ignoring case
AvailableNamed(ps, name) ==
    { i \in 1..Len(ps) : ps[i].is_available /\ EqualIgnoringCase(ps[i].name, name) }

\* the pets of the collection whose availability a step changes
Flipped == { i \in 1..Len(pets) :
                i > Len(pets') \/ pets'[i].is_available # pets[i].is_available }

-----------------------------------------------------------------------------
(* C1 *)

\* C1: search(type, breed) returns, in collection order, exactly the pets of
\* the collection that are available and pass the filters (an empty filter
\* is a wildcard, the comparison is exact); on the default seed
\* search("dog", "") returns Luna, Teddy, Charlie, Aster (pets 1 to 4).
C1_SearchReturnsAvailableMatches ==
    call.op = "search" =>
        /\ ~call.threw
        /\ call.results = Positions(pets, call.type, call.breed, 1)
        /\ (/\ Len(pets) >= Len(DefaultSeed)
            /\ SubSeq(pets, 1, Len(DefaultSeed)) = DefaultSeed
            /\ call.type = sDog /\ ~Truthy(call.breed)
            => SubSeq(call.results, 1, 4) = <<1, 2, 3, 4>>)

-----------------------------------------------------------------------------
(* C2 *)

\* C2: adopt(name) returns true if and only if, immediately before the call,
\* name is non-empty and some pet of the collection is available and has a
\* name equal to name ignoring letter case.
C2_AdoptReturnsTrueIffAvailableMatch ==
    [][call'.op = "adopt" =>
          (call'.result <=>
              (Truthy(call'.name) /\ AvailableNamed(pets, call'.name) # {}))]_vars

-----------------------------------------------------------------------------
(* C3 *)

\* C3: when several pets share the name (ignoring case), one adopt(name)
\* makes every available one of them unavailable: afterwards no available
\* pet with that name remains, and no pet with another name changes.
C3_AdoptTakesEveryNamesake ==
    [][(/\ call'.op = "adopt"
        /\ Truthy(call'.name)
        /\ Cardinality({ i \in 1..Len(pets) :
                            EqualIgnoringCase(pets[i].name, call'.name) }) >= 2)
       => /\ AvailableNamed(pets', call'.name) = {}
          /\ Len(pets') = Len(pets)
          /\ \A i \in 1..Len(pets) :
                ~EqualIgnoringCase(pets[i].name, call'.name) => pets'[i] = pets[i]]_vars

-----------------------------------------------------------------------------
(* C4 *)

\* C4 as stated: adopt(name) changes the availability of at most one pet,
\* and when an available pet matches it is the earliest available match.
C4_AdoptTakesOnlyTheFirst ==
    [][call'.op = "adopt" =>
          /\ Cardinality(Flipped) <= 1
          /\ (Truthy(call'.name) /\ AvailableNamed(pets, call'.name) # {} =>
                Flipped = { CHOOSE i \in AvailableNamed(pets, call'.name) :
                               \A j \in AvailableNamed(pets, call'.name) : i <= j })]_vars

\* C4 amended: adopt(name) makes unavailable every available pet among the
\* first `count` pets of the collection whose name matches name ignoring
\* case, not only the first of them; it changes nothing else.
C4_AdoptTakesEveryCountedMatch ==
    [][call'.op = "adopt" =>
          /\ Len(pets') = Len(pets)
          /\ \A i \in 1..Len(pets) :
                pets'[i] = IF /\ i <= count
                              /\ Truthy(call'.name)
                              /\ i \in AvailableNamed(pets, call'.name)
                           THEN [pets[i] EXCEPT !.is_available = FALSE]
                           ELSE pets[i]]_vars

\* an adopt has just made two namesakes unavailable at once
C4_Witness ==
    /\ call.op = "adopt" /\ call.result
    /\ Cardinality({ i \in 1..Len(pets) :
                        /\ ~pets[i].is_available
                        /\ EqualIgnoringCase(pets[i].name, call.name) }) >= 2

-----------------------------------------------------------------------------
(* C5 *)

\* C5: whenever adopt(name) returns false, the shelter after the call is
\* the shelter before it: the pets, their order and number, the count and
\* therefore the listing are unchanged.
C5_FailedAdoptChangesNothing ==
    [][call'.op = "adopt" /\ ~call'.result =>
          /\ pets' = pets
          /\ count' = count
          /\ displayShelterAnimals' = displayShelterAnimals]_vars

\* adopt has just failed: for an absent name, or for a pet already adopted
C5_Witness ==
    /\ call.op = "adopt" /\ ~call.result
    /\ \/ call.name = Undefined
       \/ \E i \in 1..count : /\ ~pets[i].is_available
                              /\ EqualIgnoringCase(pets[i].name, call.name)

-----------------------------------------------------------------------------
(* C6 *)

\* C6: every pet put into the shelter, by the seed list or by add, is
\* printed by the full-roster listing if and only if it is available.
C6_ListedIffAvailable ==
    call.op = "list" =>
        \A i \in 1..Len(pets) : (PetLine(i) \in Range(out)) <=> pets[i].is_available

-----------------------------------------------------------------------------
(* C7 *)

\* C7: add(pet) grows the collection by one, pet last and the earlier pets
\* unchanged, and the grown collection is the one search, adopt and the
\* listing iterate over: an available added pet is returned by search with
\* no filters and can be adopted by its name.
C7_AddGrowsTheIteratedCollection ==
    [][call'.op = "add" =>
          /\ Len(pets') = Len(pets) + 1
          /\ SubSeq(pets', 1, Len(pets)) = pets
          /\ count' = Len(pets')
          /\ (pets'[Len(pets')].is_available =>
                /\ Len(pets') \in (Range(search(Empty, Empty).results))'
                /\ (adopt(pets[Len(pets)].name).result)')]_vars

-----------------------------------------------------------------------------
(* C8 *)

\* C8: adoption is one-way: a pet whose flag is false keeps it false, no pet
\* is removed from the collection or replaced, and a pet that is not
\* available is neither among the pets search returned nor among the pet
\* lines printed.
C8_AdoptionIsOneWay ==
    /\ [][/\ Len(pets') >= Len(pets)
          /\ \A i \in 1..Len(pets) :
                /\ pets'[i].name = pets[i].name
                /\ pets'[i].type = pets[i].type
                /\ pets'[i].breed = pets[i].breed
                /\ (~pets[i].is_available => ~pets'[i].is_available)]_vars
    /\ [](/\ \A i \in Range(call.results) : pets[i].is_available
          /\ \A l \in Range(out) : l.msg = "pet" => pets[l.pet].is_available)

\* after Luna of the default seed was adopted, search("dog", "") has just
\* returned Teddy, Charlie and Aster
C8_Witness ==
    /\ Len(pets) >= 4 /\ pets[1].name = sLuna /\ pets[2].name = sTeddy
    /\ ~pets[1].is_available
    /\ call.op = "search" /\ call.type = sDog /\ ~Truthy(call.breed)
    /\ call.results = <<2, 3, 4>>

-----------------------------------------------------------------------------
(* C9 *)

\* C9: an adopt(name) that directly follows a successful adopt(name) of the
\* same name fails and changes nothing.
C9_SecondAdoptFails ==
    [][(/\ call.op = "adopt" /\ call.result
        /\ call'.op = "adopt" /\ call'.name = call.name)
       => /\ ~call'.result
          /\ pets' = pets
          /\ count' = count]_vars

\* the second of two adopts of the same name in a row has just returned
C9_Witness ==
    call.op = "adopt" /\ call.again /\ ~call.result

-----------------------------------------------------------------------------
(* C10 *)

\* C10: once the input stream has ended, the session eventually stops in a
\* normal terminated state: no uncaught error, no endless issuing of reads.
C10_EndOfInputStopsTheSession ==
    /\ [](inputEnded => pc # "Crashed")
    /\ (inputEnded ~> (pc \in {"Exit", "Stopped"} /\ pending = 0))

-----------------------------------------------------------------------------
(* Vocabulary of the session properties *)

\* the step just taken (or being taken, when primed) answered a read
Answered == lastRead.at # "none"

Last(s) == s[Len(s)]

\* the menu is displayed and its read is outstanding
MenuDisplayed ==
    pc = "MainMenu" /\ pending = 1 /\ Len(out) > 0 /\ Last(out) = Line("instructions")

ExitMessage == Line("Exiting the program.")
ValidationMessage ==
    Line("You must specify a valid name in order to adopt a pet. Please try again.")
FailureMessage ==
    Line("Something went wrong. Please check that the name is spelled correctly.")

-----------------------------------------------------------------------------
(* C11 *)

\* C11: in every state that awaits input, a read that delivers no result
\* object leaves the session in that same state with a new prompt
\* outstanding, raises no error and does not change the shelter.
C11_NoResultStaysInPlace ==
    [][Answered' /\ lastRead'.result = NoResult =>
          /\ pc' = pc
          /\ pending' = 1
          /\ pets' = pets
          /\ count' = count]_vars

-----------------------------------------------------------------------------
(* C12 *)

\* C12: menu option 1 on a roster that is empty or whose pets are all
\* adopted prints "No pets are currently available." and no pet line.
C12_NothingAvailableMessage ==
    (call.op = "list" /\ \A i \in 1..Len(pets) : ~pets[i].is_available) =>
        /\ Line("No pets are currently available.") \in Range(out)
        /\ \A l \in Range(out) : l.msg # "pet"

-----------------------------------------------------------------------------
(* C13 *)

\* C13: from MainMenu the line read determines the next state: "1" lists
\* and returns to MainMenu, "2" goes to AwaitType, "3" to AwaitAdoptName,
\* "4" to Exit, anything else (also no line) stays in MainMenu with the
\* menu displayed again; nothing else leaves MainMenu.
C13_MainMenuTransitions ==
    /\ [][pc = "MainMenu" /\ Answered' =>
             LET line == lastRead'.result IN
             IF line = <<"1">> THEN call'.op = "list" /\ MenuDisplayed'
             ELSE IF line = <<"2">> THEN pc' = "AwaitType" /\ pending' = 1
             ELSE IF line = <<"3">> THEN pc' = "AwaitAdoptName" /\ pending' = 1
             ELSE IF line = <<"4">> THEN pc' = "Exit"
             ELSE MenuDisplayed' /\ call'.op = "none"]_vars
    /\ [][pc = "MainMenu" /\ pc' # "MainMenu" =>
             Answered' /\ lastRead'.result \in {<<"2">>, <<"3">>, <<"4">>}]_vars

\* an unrecognised selection has just been read and the menu is displayed again
C13_Witness ==
    /\ lastRead = [at |-> "MainMenu", result |-> <<"5">>]
    /\ MenuDisplayed

-----------------------------------------------------------------------------
(* C14 *)

\* C14: Exit is entered only by reading "4" at MainMenu, the step that
\* prints the exit message; Exit is terminal: no step follows it, so the
\* message is printed once, no prompt is issued, nothing is read and the
\* shelter is not changed; "4" read at another prompt does not exit.
C14_ExitIsTerminal ==
    /\ [][pc' = "Exit" =>
             /\ pc = "MainMenu"
             /\ lastRead' = [at |-> "MainMenu", result |-> <<"4">>]
             /\ ExitMessage \in Range(out')]_vars
    /\ [][(ExitMessage \in Range(out')) => (pc' = "Exit")]_vars
    /\ [][~(pc = "Exit")]_vars
    /\ [](pc = "Exit" => pending = 0)
    /\ [](Answered /\ lastRead.at # "MainMenu" /\ lastRead.result = <<"4">>
             => pc # "Exit" /\ ExitMessage \notin Range(out))

\* the session has exited
C14_Witness ==
    pc = "Exit" /\ out = << ExitMessage >> /\ pending = 0

-----------------------------------------------------------------------------
(* C15 *)

\* C15: at most one read is outstanding at any moment: one while the
\* session awaits input, none once it has ended.
C15_OneOutstandingRead ==
    /\ pending <= 1
    /\ (pending = 1 <=> pc \in Live)

\* a callback has just issued the next read
C15_Witness ==
    Answered /\ lastRead.at = "AwaitType" /\ pc = "AwaitBreed" /\ pending = 1

-----------------------------------------------------------------------------
(* C16 *)

\* the counted pets search returns when only the breed filters
AnyTypePositions(breed) ==
    SelectSeq([i \in 1..count |-> i],
              LAMBDA i : pets[i].is_available /\ (Truthy(breed) => pets[i].breed = breed))

\* C16: the line read in AwaitType becomes the type filter only when it is
\* exactly "cat" or "dog"; any other line gives no type filter, and then
\* the search that follows returns the pets of every type; in both cases
\* the next state is AwaitBreed.
C16_TypeLineBecomesFilter ==
    /\ [][pc = "AwaitType" /\ Answered' /\ lastRead'.result # NoResult =>
             /\ pc' = "AwaitBreed"
             /\ carriedType' = IF lastRead'.result \in {sCat, sDog}
                               THEN lastRead'.result ELSE Empty]_vars
    /\ [][pc = "AwaitBreed" /\ Answered' /\ lastRead'.result # NoResult =>
             /\ call'.op = "search" /\ call'.type = carriedType
             /\ (carriedType = Empty =>
                    call'.results = AnyTypePositions(lastRead'.result))]_vars

\* "Dog" has just been read as the type: no type filter is carried to AwaitBreed
C16_Witness ==
    /\ lastRead = [at |-> "AwaitType", result |-> sDogUpper]
    /\ pc = "AwaitBreed" /\ carriedType = Empty

-----------------------------------------------------------------------------
(* C17 *)

\* C17: an empty name in AwaitAdoptName prints the validation message,
\* calls no adopt, leaves every pet unchanged and returns to MainMenu; the
\* validation message is another message than the adoption-failure message,
\* which is printed only when adopt was called with a non-empty name and
\* returned false.
C17_EmptyNameIsRejected ==
    /\ [][pc = "AwaitAdoptName" /\ Answered' /\ lastRead'.result = Empty =>
             /\ ValidationMessage \in Range(out')
             /\ FailureMessage \notin Range(out')
             /\ call'.op = "none"
             /\ pets' = pets /\ count' = count
             /\ MenuDisplayed']_vars
    /\ [](FailureMessage \in Range(out) =>
             /\ ValidationMessage \notin Range(out)
             /\ call.op = "adopt" /\ Truthy(call.name) /\ ~call.result)
    /\ [](ValidationMessage # FailureMessage)

\* an empty name has just been rejected
C17_Witness ==
    /\ lastRead = [at |-> "AwaitAdoptName", result |-> Empty]
    /\ ValidationMessage \in Range(out)
    /\ pc = "MainMenu"

-----------------------------------------------------------------------------
(* C18 *)

\* C18: a search interaction and an adoption interaction return to
\* MainMenu: a type line leads to the breed prompt, and a breed line or a
\* name line, whatever it is and whatever the outcome, leads to MainMenu
\* with the menu displayed; while lines keep arriving, every prompt of an
\* interaction is followed by MainMenu again.
C18_InteractionsReturnToMenu ==
    /\ [][Answered' /\ lastRead'.result # NoResult =>
             /\ (pc = "AwaitType" => pc' = "AwaitBreed" /\ pending' = 1)
             /\ (pc \in {"AwaitBreed", "AwaitAdoptName"} => MenuDisplayed')]_vars
    /\ [][pc' \in {"Crashed", "Stopped"} =>
             Answered' /\ lastRead'.result = NoResult]_vars
    /\ (pc \in {"AwaitType", "AwaitBreed", "AwaitAdoptName"}
           ~> pc \in {"MainMenu", "Crashed", "Stopped"})

\* a failed adoption has just returned to the menu
C18_Witness ==
    /\ lastRead.at = "AwaitAdoptName"
    /\ call.op = "adopt" /\ ~call.result
    /\ MenuDisplayed

-----------------------------------------------------------------------------
(* C19 *)

\* C19: count never exceeds the length of the pets array, so no loop of
\* search, adopt or the listing reads past the end of the array.
C19_CountWithinArray ==
    /\ count <= Len(pets)
    /\ ~call.threw
    /\ ~search(Empty, Empty).threw
    /\ ~adopt(Empty).threw
    /\ ~displayShelterAnimals.threw

\* a search has just run over a shelter a pet was added to
C19_Witness ==
    nAdded > 0 /\ call.op = "search" /\ count < Len(pets)

-----------------------------------------------------------------------------
(* C20 *)

\* C20: search, the listing and the session steps for the menu lines other
\* than "3" leave the pets, their order and number and the count unchanged;
\* adopt never changes a name, type or breed, and a step that changes a pet
\* is a successful adopt.
C20_OnlyAdoptionChangesPets ==
    /\ [][(\/ call'.op \in {"search", "list"}
           \/ (pc = "MainMenu" /\ Answered' /\ lastRead'.result # <<"3">>))
          => pets' = pets /\ count' = count]_vars
    /\ [][call'.op = "adopt" =>
             /\ Len(pets') = Len(pets)
             /\ count' = count
             /\ \A i \in 1..Len(pets) :
                   /\ pets'[i].name = pets[i].name
                   /\ pets'[i].type = pets[i].type
                   /\ pets'[i].breed = pets[i].breed]_vars
    /\ [][(\E i \in 1..Len(pets) : i > Len(pets') \/ pets'[i] # pets[i])
          => call'.op = "adopt" /\ call'.result]_vars

\* the listing has just run after an adoption
C20_Witness ==
    /\ call.op = "list"
    /\ \E i \in 1..count : ~pets[i].is_available
    /\ \E l \in Range(out) : l.msg = "pet"

=============================================================================
